---- MODULE Spec2Model ----
(***************************************************************************)
(* State-machine model of the bingo Game Engine (services/gameEngine.js,   *)
(* here src/unnamed/part_002) together with the rows of the storage        *)
(* collaborator it reads and writes (Game, Card, User).                    *)
(*                                                                         *)
(* JavaScript runs one continuation at a time: the code between two awaits *)
(* is atomic.  Every action below is one such continuation: it first       *)
(* applies the effect of the awaited storage call that has just resolved   *)
(* and then runs the synchronous code up to the next await.  Money is      *)
(* counted in cents (DECIMAL(15,2) columns).                               *)
(***************************************************************************)
EXTENDS Integers, Sequences, FiniteSets, TLC

\* ------------------------------------------------------------------ bounds
MaxGames == 1          \* rounds created in one run
NumUsers == 2          \* participants
NumCards == 6          \* cards generated per round (the code generates 400)
AskedCards == 2        \* card numbers asked for while the countdown and the caller run
MaxPurchases == 2      \* purchaseCard calls made in one run
MaxInFlight == 2       \* interval callbacks of one round running at once
MaxSeeds == 2          \* round ids a card is generated for directly
MaxDraws == 6          \* draws made by a Number Caller whose run is cut short
MaxRestarts == 2        \* countdowns resumed by restarts of the process
MaxRounds == 7         \* rounds the scheduler creates when it is followed on its own

\* ------------------------------------------------------- program constants
BetAmount == 1000      \* settings.bet_amount: 10.00
HouseFeePct == 5       \* settings.house_fee: 0.05
MinCards == 1          \* startGame: if (cards < 1) cancel
WaitingFloor == 5      \* startScheduler: waitingGames.size < 5
GridSize == 5          \* 5 x 5 card
ColumnWidth == 15      \* 15 numbers per letter
Undefined == 0         \* the JavaScript value undefined, where a number is expected
NaN == -1              \* the JavaScript value NaN
NoUser == 0            \* user_id: null / winner_id unset
MaxCardsPerPlayer == 5 \* settings.max_cards_per_player
CardsPerGame == 400    \* generateGameCards: cardNum <= 400
CountdownPeriods == 6  \* Date.now() + 30000, in periods of setInterval(..., 5000)

Games == 1..MaxGames
\* the ids Game.create can give
Rounds == 1..MaxRounds
Users == 1..NumUsers
CardNumbers == 1..NumCards
Calls == 1..MaxPurchases
Slots == 1..MaxInFlight
Letters == <<"B", "I", "N", "G", "O">>

\* --------------------------------------------------------------- helpers
Range(s) == {s[i] : i \in DOMAIN s}

RECURSIVE SetToSeqs(_)
\* every order in which a query without ORDER BY may return the rows in S
SetToSeqs(S) ==
    IF S = {} THEN {<<>>}
    ELSE UNION {{<<x>> \o t : t \in SetToSeqs(S \ {x})} : x \in S}

\* ------------------------------------------------------- Card Generator
\* ranges: 'B': [1,15], 'I': [16,30], 'N': [31,45], 'G': [46,60], 'O': [61,75]
ColumnMin(col) == (col - 1) * ColumnWidth + 1
ColumnMax(col) == col * ColumnWidth

\* const seed = cardNumber + gameId.  gameId is Game.id, the value stored in
\* Card.game_id (DataTypes.UUID): number + string is string concatenation, so
\* the seed is a non-numeric string whatever the card and the round.
SeedIsNumber(cardNumber, gameId) == FALSE

\* seededRandom(index): x = Math.sin(seed + index) * 10000; x - Math.floor(x).
\* seed + index is again a string; Math.sin of a non-numeric string is NaN.
\* A numeric seed would give a fraction in [0, 1), which is not computed here.
seededRandom(cardNumber, gameId, index) ==
    IF SeedIsNumber(cardNumber, gameId) THEN Undefined ELSE NaN

\* j = Math.floor(seededRandom(colIndex * 100 + i) * (i + 1))
ShuffleIndex(cardNumber, gameId, colIndex, i) ==
    IF seededRandom(cardNumber, gameId, colIndex * 100 + i) = NaN THEN NaN ELSE Undefined

\* a swap in which an index that is not a number reads undefined and its
\* write is lost
SwapDropsNaN(a, i, j) ==
    IF j = NaN
    THEN [elems |-> [a.elems EXCEPT ![i + 1] = Undefined], nanProp |-> Undefined]
    ELSE [elems |-> [a.elems EXCEPT ![i + 1] = a.elems[j + 1], ![j + 1] = a.elems[i + 1]],
          nanProp |-> a.nanProp]

\* [a[i], a[j]] = [a[j], a[i]] on the array a: a.elems are its elements, as a
\* 1-based sequence (i, j are 0-based), and a.nanProp is its property "NaN",
\* undefined until written.  With j = NaN, a[j] reads that property and the
\* write to a[j] sets it: a[i] gets what the previous swap left there.
SwapCells(a, i, j) ==
    IF j = NaN
    THEN [elems |-> [a.elems EXCEPT ![i + 1] = a.nanProp], nanProp |-> a.elems[i + 1]]
    ELSE [elems |-> [a.elems EXCEPT ![i + 1] = a.elems[j + 1], ![j + 1] = a.elems[i + 1]],
          nanProp |-> a.nanProp]

RECURSIVE ShuffleColumn(_, _, _, _, _)
\* for (let i = columnNumbers.length - 1; i > 0; i--) swap(i, j)
ShuffleColumn(a, cardNumber, gameId, colIndex, i) ==
    IF i <= 0 THEN a
    ELSE ShuffleColumn(SwapCells(a, i, ShuffleIndex(cardNumber, gameId, colIndex, i)),
                       cardNumber, gameId, colIndex, i - 1)

RECURSIVE NumbersFrom(_, _)
\* for (let num = min; num <= max; num++) columnNumbers.push(num)
NumbersFrom(min, max) ==
    IF min > max THEN <<>> ELSE <<min>> \o NumbersFrom(min + 1, max)

\* the five numbers of column col (1-based) of a card: the first five of the
\* shuffled range
ColumnNumbers(cardNumber, gameId, col) ==
    LET all == NumbersFrom(ColumnMin(col), ColumnMax(col))
        sh  == ShuffleColumn([elems |-> all, nanProp |-> Undefined], cardNumber, gameId,
                             col - 1, Len(all) - 1)
    IN  SubSeq(sh.elems, 1, GridSize)

\* numbers[row][col] = {letter, number, called, row, col}; centre marked free
generateCardNumbers(cardNumber, gameId) ==
    [row \in 1..GridSize |->
        [col \in 1..GridSize |->
            [letter |-> Letters[col],
             number |-> ColumnNumbers(cardNumber, gameId, col)[row],
             free   |-> (row = 3 /\ col = 3)]]]

\* --------------------------------------------------------- Win Detector
\* `${n.letter}${n.number}`
Key(n) == <<n.letter, n.number>>

LineComplete(cells, calledSet) ==
    \A cell \in cells : cell.free \/ Key(cell) \in calledSet

\* a win check that looks at the rows and the columns only
checkRowsAndColumns(cardNumbers, calledNumbers) ==
    LET calledSet == {Key(calledNumbers[k]) : k \in DOMAIN calledNumbers}
    IN  \/ \E row \in 1..GridSize :
              LineComplete({cardNumbers[row][col] : col \in 1..GridSize}, calledSet)
        \/ \E col \in 1..GridSize :
              LineComplete({cardNumbers[row][col] : row \in 1..GridSize}, calledSet)

checkCardForBingo(cardNumbers, calledNumbers) ==
    LET calledSet == {Key(calledNumbers[k]) : k \in DOMAIN calledNumbers}
    IN  \/ \E row \in 1..GridSize :
              LineComplete({cardNumbers[row][col] : col \in 1..GridSize}, calledSet)
        \/ \E col \in 1..GridSize :
              LineComplete({cardNumbers[row][col] : row \in 1..GridSize}, calledSet)
        \/ LineComplete({cardNumbers[i][i] : i \in 1..GridSize}, calledSet)
        \/ LineComplete({cardNumbers[i][GridSize + 1 - i] : i \in 1..GridSize}, calledSet)

\* ---------------------------------------------------------- Number Caller
LetterOf(num) == Letters[((num - 1) \div ColumnWidth) + 1]
Draw(num) == [letter |-> LetterOf(num), number |-> num]

\* allNumbers before the shuffle: the 75 draws B1..O75
AllNumbers == [k \in 1..(GridSize * ColumnWidth) |-> Draw(k)]


\* the orders the Math.random shuffle is taken from in this model: B1 I16 N31
\* G46 O61 first and then the other 70 draws in ascending order; and the
\* unshuffled order B1, B2, ...
FirstRowFirst(k) ==
    IF k <= GridSize THEN ColumnMin(k)
    ELSE ((k - GridSize - 1) \div (ColumnWidth - 1)) * ColumnWidth
         + ((k - GridSize - 1) % (ColumnWidth - 1)) + 2

CallOrders == <<[k \in 1..(GridSize * ColumnWidth) |-> Draw(FirstRowFirst(k))], AllNumbers>>

\* ------------------------------------------------------------------ state
VARIABLES
    waitingGames,   \* this.waitingGames: ids of the pending partition
    activeGames,    \* this.activeGames: ids of the active partition
    game,           \* the in-memory round objects the two maps refer to
    gameTimers,     \* this.gameTimers: rounds with a countdown timer handle
    dbGame,         \* Game rows
    dbCard,         \* Card rows: dbCard[g][c]
    user,           \* User rows
    transactions,   \* Transaction rows, in creation order
    events,         \* events[g][name]: how often the engine emitted name for g
    deltas,         \* deltas[g][kind]: balance changes applied for round g
    creating,       \* createNewGame calls, by the round they create
    starter,        \* startGame / cancelGame of each round
    caller,         \* callNumbers closure of each round
    tick,           \* interval callbacks in flight: tick[g][slot]
    purchase,       \* purchaseCard calls
    newGameTimers,  \* setTimeout(createNewGame) timers pending, and the
                    \* createNewGame call cancelGame makes
    probe,          \* a direct call of checkCardForBingo or generateCardNumbers:
                    \* its arguments and what it returned
    start_time      \* start_time of each Game row, counted in periods of the
                    \* scheduler (5 s) from now

vars == <<waitingGames, activeGames, game, gameTimers, dbGame, dbCard, user,
          transactions, events, deltas, creating, starter, caller, tick,
          purchase, newGameTimers, probe, start_time>>

engineVars == <<waitingGames, activeGames, game, gameTimers>>
storeVars == <<dbGame, dbCard, user, transactions>>

EventNames == {"gameCreated", "gameCountdown", "gameStarted", "numberCalled",
               "cardPurchased", "winnerDeclared", "gameEnded"}
DeltaKinds == {"bet", "win", "refund"}

\* const { Game, Card, User } = require('../models'): Transaction is not among
\* the imports and is declared nowhere in the file, so evaluating
\* Transaction.create throws a ReferenceError.
TransactionDefined == FALSE

NoGame == [status |-> "none", pot |-> 0, called_numbers |-> <<>>,
           winner_id |-> NoUser, winning_card |-> 0]
NoCard == [exists |-> FALSE, user_id |-> NoUser, is_winner |-> FALSE]
IdleTick == [pc |-> "idle", userId |-> NoUser, cardNumber |-> 0, winnings |-> 0,
             calledLen |-> 0]
IdleCall == [pc |-> "idle", gameId |-> 0, userId |-> NoUser, cardNumber |-> 0,
             potArg |-> 0, result |-> "none"]

\* balances the participants start with: two bets, and one bet
InitialBalance(u) == IF u = 1 THEN 2 * BetAmount ELSE BetAmount

\* the engine after construction, with room for the rounds ids and the User
\* rows holding balance[u]
InitOver(ids, balance) ==
    /\ waitingGames = {}
    /\ activeGames = {}
    /\ game = [g \in ids |-> NoGame]
    /\ gameTimers = {}
    /\ dbGame = [g \in ids |-> NoGame]
    /\ dbCard = [g \in ids |-> [c \in CardNumbers |-> NoCard]]
    /\ user = [u \in Users |-> [balance |-> balance[u], total_won |-> 0,
                                games_won |-> 0, games_played |-> 0]]
    /\ transactions = <<>>
    /\ events = [g \in ids |-> [e \in EventNames |-> 0]]
    /\ deltas = [g \in ids |-> [k \in DeltaKinds |-> 0]]
    /\ creating = [g \in ids |-> "none"]
    /\ starter = [g \in ids |-> [pc |-> "none", refunds |-> <<>>]]
    /\ caller = [g \in ids |-> [running |-> FALSE, order |-> 0, numberIndex |-> 0]]
    /\ tick = [g \in ids |-> [s \in Slots |-> IdleTick]]
    /\ purchase = [p \in Calls |-> IdleCall]
    /\ newGameTimers = 0
    /\ start_time = [g \in ids |-> 0]

\* the engine after construction, with the User rows holding balance[u]
InitWith(balance) == InitOver(Games, balance)

\* no direct call is made
NoProbe == [pc |-> "none"]

Init == InitWith([u \in Users |-> InitialBalance(u)]) /\ probe = NoProbe

\* every participant can pay for one card more than max_cards_per_player
InitCap == InitWith([u \in Users |-> (MaxCardsPerPlayer + 1) * BetAmount]) /\ probe = NoProbe

Emit(g, name) == [events EXCEPT ![g][name] = @ + 1]

\* Card.count / Card.findAll where game_id = g and user_id is not null
PurchasedCards(g) == {c \in CardNumbers : dbCard[g][c].exists /\ dbCard[g][c].user_id # NoUser}

\* ------------------------------------------------------- createNewGame
\* startScheduler's interval (waitingGames.size < 5), a setTimeout set by
\* declareWinner / endGame, or the call at the end of cancelGame: the call runs
\* up to await Game.create.  The round's id is the next unused one.
CreateNewGame(g) ==
    /\ creating[g] = "none"
    /\ \A h \in Rounds : h < g => creating[h] # "none"
    /\ \/ Cardinality(waitingGames) < WaitingFloor
       \/ newGameTimers > 0
    /\ newGameTimers' = IF Cardinality(waitingGames) < WaitingFloor /\ newGameTimers = 0
                        THEN 0 ELSE newGameTimers - 1
    /\ creating' = [creating EXCEPT ![g] = "create"]
    /\ UNCHANGED <<probe, start_time, engineVars, storeVars, events, deltas, starter, caller, tick, purchase>>

\* a createNewGame that registers the round before its cards are generated
NewGameRegisteredFirst(g) ==
    /\ creating[g] = "create"
    /\ dbGame' = [dbGame EXCEPT ![g] = [NoGame EXCEPT !.status = "waiting"]]
    /\ start_time' = [start_time EXCEPT ![g] = CountdownPeriods]
    /\ game' = [game EXCEPT ![g] = [NoGame EXCEPT !.status = "waiting"]]
    /\ waitingGames' = waitingGames \cup {g}
    /\ creating' = [creating EXCEPT ![g] = "cards"]
    /\ UNCHANGED <<probe, activeGames, gameTimers, dbCard, user, transactions, events, deltas,
                   starter, caller, tick, purchase, newGameTimers>>

\* Game.create resolved: the row exists (waiting, pot 0, start_time 30 s
\* ahead); generateGameCards builds the cards and awaits Card.bulkCreate
NewGameCreated(g) ==
    /\ creating[g] = "create"
    /\ dbGame' = [dbGame EXCEPT ![g] = [NoGame EXCEPT !.status = "waiting"]]
    /\ start_time' = [start_time EXCEPT ![g] = CountdownPeriods]
    /\ creating' = [creating EXCEPT ![g] = "cards"]
    /\ UNCHANGED <<probe, engineVars, dbCard, user, transactions, events, deltas, starter,
                   caller, tick, purchase, newGameTimers>>

\* Card.bulkCreate resolved; gameData = game.toJSON(); waitingGames.set;
\* await RedisClient.set
NewGameCards(g) ==
    /\ creating[g] = "cards"
    /\ dbCard' = [dbCard EXCEPT ![g] = [c \in CardNumbers |-> [NoCard EXCEPT !.exists = TRUE]]]
    /\ game' = [game EXCEPT ![g] = dbGame[g]]
    /\ waitingGames' = waitingGames \cup {g}
    /\ creating' = [creating EXCEPT ![g] = "snapshot"]
    /\ UNCHANGED <<probe, start_time, activeGames, gameTimers, dbGame, user, transactions, events, deltas,
                   starter, caller, tick, purchase, newGameTimers>>

\* RedisClient.set resolved; startCountdown(game.id) sets the timer and
\* broadcasts the countdown; emit gameCreated
NewGameSnapshot(g) ==
    /\ creating[g] = "snapshot"
    /\ creating' = [creating EXCEPT ![g] = "done"]
    /\ IF g \in waitingGames
       THEN /\ gameTimers' = gameTimers \cup {g}
            /\ starter' = [starter EXCEPT ![g].pc = "timer"]
            /\ events' = [events EXCEPT ![g]["gameCountdown"] = @ + 1,
                                        ![g]["gameCreated"] = @ + 1]
       ELSE /\ events' = Emit(g, "gameCreated")
            /\ UNCHANGED <<gameTimers, starter>>
    /\ UNCHANGED <<probe, start_time, waitingGames, activeGames, game, storeVars, deltas, caller, tick,
                   purchase, newGameTimers>>

\* --------------------------------------------------------- purchaseCard
Finish(p, res) == [purchase EXCEPT ![p].pc = "done", ![p].result = res, ![p].potArg = 0]

\* the call: game = waitingGames.get(gameId); the status check; then
\* await Card.findOne({game_id, card_number, user_id: null})
PurchaseCall(p, g, u, c) ==
    /\ purchase[p].pc = "idle"
    /\ \A q \in Calls : q < p => purchase[q].pc # "idle"
    /\ purchase' =
         IF g \notin waitingGames \/ game[g].status # "waiting"
         THEN [purchase EXCEPT ![p] = [IdleCall EXCEPT !.pc = "done",
                                                       !.result = "GameNotAvailable"]]
         ELSE [purchase EXCEPT ![p] = [IdleCall EXCEPT !.pc = "findCard", !.gameId = g,
                   !.userId = u, !.cardNumber = c]]
    /\ UNCHANGED <<probe, start_time, engineVars, storeVars, events, deltas, creating, starter, caller,
                   tick, newGameTimers>>

\* Card.findOne resolved: no unowned row -> 'Card not available'; otherwise
\* await User.findByPk(userId)
PurchaseFindCard(p) ==
    /\ purchase[p].pc = "findCard"
    /\ LET row == dbCard[purchase[p].gameId][purchase[p].cardNumber]
       IN  purchase' = IF row.exists /\ row.user_id = NoUser
                       THEN [purchase EXCEPT ![p].pc = "findUser"]
                       ELSE Finish(p, "CardNotAvailable")
    /\ UNCHANGED <<probe, start_time, engineVars, storeVars, events, deltas, creating, starter, caller,
                   tick, newGameTimers>>

\* a purchaseCard that debits the balance before it compares it with bet_amount
PurchaseDebitsFirst(p) ==
    /\ purchase[p].pc = "findUser"
    /\ user' = [user EXCEPT ![purchase[p].userId].balance = @ - BetAmount]
    /\ deltas' = [deltas EXCEPT ![purchase[p].gameId]["bet"] = @ + 1]
    /\ purchase' = IF user[purchase[p].userId].balance < BetAmount
                   THEN Finish(p, "InsufficientBalance")
                   ELSE [purchase EXCEPT ![p].pc = "save"]
    /\ UNCHANGED <<probe, start_time, engineVars, dbGame, dbCard, transactions, events, creating, starter,
                   caller, tick, newGameTimers>>

\* User.findByPk resolved: user.balance < bet_amount -> 'Insufficient balance';
\* otherwise await User.decrement('balance', {by: bet_amount})
PurchaseFindUser(p) ==
    /\ purchase[p].pc = "findUser"
    /\ purchase' = IF user[purchase[p].userId].balance < BetAmount
                   THEN Finish(p, "InsufficientBalance")
                   ELSE [purchase EXCEPT ![p].pc = "decrement"]
    /\ UNCHANGED <<probe, start_time, engineVars, storeVars, events, deltas, creating, starter, caller,
                   tick, newGameTimers>>

\* User.decrement resolved; card.user_id = userId; await card.save()
PurchaseDecrement(p) ==
    /\ purchase[p].pc = "decrement"
    /\ user' = [user EXCEPT ![purchase[p].userId].balance = @ - BetAmount]
    /\ deltas' = [deltas EXCEPT ![purchase[p].gameId]["bet"] = @ + 1]
    /\ purchase' = [purchase EXCEPT ![p].pc = "save"]
    /\ UNCHANGED <<probe, start_time, engineVars, dbGame, dbCard, transactions, events, creating, starter,
                   caller, tick, newGameTimers>>

\* card.save() resolved (UPDATE by primary key, whoever owns the row by now);
\* game.pot += bet_amount; await Game.update({pot: game.pot})
PurchaseSave(p) ==
    /\ purchase[p].pc = "save"
    /\ LET g == purchase[p].gameId
       IN  /\ dbCard' = [dbCard EXCEPT ![g][purchase[p].cardNumber].user_id = purchase[p].userId]
           /\ game' = [game EXCEPT ![g].pot = @ + BetAmount]
           /\ purchase' = [purchase EXCEPT ![p].pc = "potUpdate",
                                           ![p].potArg = game[g].pot + BetAmount]
    /\ UNCHANGED <<probe, start_time, waitingGames, activeGames, gameTimers, dbGame, user, transactions,
                   events, deltas, creating, starter, caller, tick, newGameTimers>>

\* Game.update resolved; waitingGames.set(gameId, game); Transaction.create;
\* User.increment('games_played'); emit cardPurchased; return card.
\* Transaction.create throws before it awaits when Transaction is undefined:
\* the catch block logs and rethrows.
PurchaseRecord(p) ==
    /\ purchase[p].pc = "potUpdate"
    /\ LET g == purchase[p].gameId
           u == purchase[p].userId
       IN  /\ dbGame' = [dbGame EXCEPT ![g].pot = purchase[p].potArg]
           /\ waitingGames' = waitingGames \cup {g}
           /\ IF TransactionDefined
              THEN /\ transactions' = Append(transactions,
                          [user_id |-> u, type |-> "bet", amount |-> BetAmount,
                           game_id |-> g, card_number |-> purchase[p].cardNumber])
                   /\ user' = [user EXCEPT ![u].games_played = @ + 1]
                   /\ events' = Emit(g, "cardPurchased")
                   /\ purchase' = Finish(p, "ok")
              ELSE /\ purchase' = Finish(p, "ReferenceError")
                   /\ UNCHANGED <<transactions, user, events>>
    /\ UNCHANGED <<probe, start_time, activeGames, game, gameTimers, dbCard, deltas, creating, starter,
                   caller, tick, newGameTimers>>

\* the caller of purchaseCard has its card or its error and calls again
PurchaseReturn(p) ==
    /\ purchase[p].pc = "done"
    /\ purchase' = [purchase EXCEPT ![p] = IdleCall]
    /\ UNCHANGED <<probe, start_time, engineVars, storeVars, events, deltas, creating, starter, caller,
                   tick, newGameTimers>>

\* ------------------------------------------------ startGame / cancelGame
\* the countdown timer fires: startGame(gameId) reads waitingGames and awaits
\* Card.count of the purchased cards
CountdownFire(g) ==
    /\ starter[g].pc = "timer"
    /\ starter' = [starter EXCEPT ![g].pc = IF g \in waitingGames THEN "count" ELSE "done"]
    /\ UNCHANGED <<probe, start_time, engineVars, storeVars, events, deltas, creating, caller, tick,
                   purchase, newGameTimers>>

\* a startGame that activates the round whatever Card.count returned
StartCountAlwaysStarts(g) ==
    /\ starter[g].pc = "count"
    /\ starter' = [starter EXCEPT ![g].pc = "startUpdate"]
    /\ UNCHANGED <<probe, start_time, engineVars, storeVars, events, deltas, creating, caller, tick,
                   purchase, newGameTimers>>

\* Card.count resolved.  cards < 1: cancelGame(gameId) reads waitingGames and
\* awaits Game.update({status: 'cancelled'}); otherwise await
\* Game.update({status: 'active'})
StartCount(g) ==
    /\ starter[g].pc = "count"
    /\ starter' = [starter EXCEPT ![g].pc =
                      IF Cardinality(PurchasedCards(g)) < MinCards
                      THEN (IF g \in waitingGames THEN "cancelUpdate" ELSE "done")
                      ELSE "startUpdate"]
    /\ UNCHANGED <<probe, start_time, engineVars, storeVars, events, deltas, creating, caller, tick,
                   purchase, newGameTimers>>

\* Game.update resolved; game.status = 'active'; move the round from the
\* pending to the active partition; await RedisClient.set
StartUpdate(g) ==
    /\ starter[g].pc = "startUpdate"
    /\ dbGame' = [dbGame EXCEPT ![g].status = "active"]
    /\ game' = [game EXCEPT ![g].status = "active"]
    /\ waitingGames' = waitingGames \ {g}
    /\ activeGames' = activeGames \cup {g}
    /\ starter' = [starter EXCEPT ![g].pc = "startSnapshot"]
    /\ UNCHANGED <<probe, start_time, gameTimers, dbCard, user, transactions, events, deltas, creating,
                   caller, tick, purchase, newGameTimers>>

\* RedisClient.set resolved; callNumbers(gameId) shuffles the 75 draws and
\* sets the interval (it returns at once when the round is not active);
\* emit gameStarted
StartSnapshot(g) ==
    /\ starter[g].pc = "startSnapshot"
    /\ starter' = [starter EXCEPT ![g].pc = "done"]
    /\ \E o \in DOMAIN CallOrders :
          caller' = IF g \in activeGames
                    THEN [caller EXCEPT ![g] = [running |-> TRUE, order |-> o,
                                                numberIndex |-> 0]]
                    ELSE caller
    /\ events' = Emit(g, "gameStarted")
    /\ UNCHANGED <<probe, start_time, engineVars, storeVars, deltas, creating, tick, purchase, newGameTimers>>

\* a startGame that goes on to activate the round after cancelGame
AfterCancelFallThrough == "startUpdate"

\* startGame after the cancel branch: await this.cancelGame(gameId); return;
AfterCancelGame == "done"

\* cancelGame: Game.update({status: 'cancelled'}) resolved; await Card.findAll
\* of the purchased cards
CancelUpdate(g) ==
    /\ starter[g].pc = "cancelUpdate"
    /\ dbGame' = [dbGame EXCEPT ![g].status = "cancelled"]
    /\ starter' = [starter EXCEPT ![g].pc = "cancelFind"]
    /\ UNCHANGED <<probe, start_time, engineVars, dbCard, user, transactions, events, deltas, creating,
                   caller, tick, purchase, newGameTimers>>

\* a cancelGame that leaves the round in the pending partition
CancelKeepsPending(g) ==
    /\ gameTimers' = gameTimers \ {g}
    /\ newGameTimers' = newGameTimers + 1
    /\ UNCHANGED <<waitingGames, activeGames, game>>

\* the code after the refund loop: waitingGames.delete, clear the timer,
\* createNewGame()
CancelRelease(g) ==
    /\ waitingGames' = waitingGames \ {g}
    /\ gameTimers' = gameTimers \ {g}
    /\ newGameTimers' = newGameTimers + 1
    /\ UNCHANGED <<activeGames, game>>

\* Card.findAll resolved (rows in any order).  No card: release the round.
\* Otherwise the loop starts: await User.increment('balance') for the first
\* card's owner
CancelFind(g) ==
    /\ starter[g].pc = "cancelFind"
    /\ \E cards \in SetToSeqs(PurchasedCards(g)) :
          IF cards = <<>>
          THEN /\ CancelRelease(g)
               /\ starter' = [starter EXCEPT ![g].pc = AfterCancelGame]
          ELSE /\ starter' = [starter EXCEPT ![g].pc = "cancelRefund",
                      ![g].refunds = [k \in DOMAIN cards |->
                          [user_id |-> dbCard[g][cards[k]].user_id, card_number |-> cards[k]]]]
               /\ UNCHANGED <<engineVars, newGameTimers>>
    /\ UNCHANGED <<probe, start_time, storeVars, events, deltas, creating, caller, tick, purchase>>

\* User.increment resolved for the card at the head of the loop; then
\* Transaction.create: undefined, it throws and the catch block ends
\* cancelGame with the round still registered; defined, the Refund row is
\* written and the loop goes on to the next card or to the release
CancelRefund(g) ==
    /\ starter[g].pc = "cancelRefund"
    /\ LET card == Head(starter[g].refunds)
           rest == Tail(starter[g].refunds)
       IN  /\ user' = [user EXCEPT ![card.user_id].balance = @ + BetAmount]
           /\ deltas' = [deltas EXCEPT ![g]["refund"] = @ + 1]
           /\ IF ~TransactionDefined
              THEN /\ starter' = [starter EXCEPT ![g] = [pc |-> AfterCancelGame, refunds |-> <<>>]]
                   /\ UNCHANGED <<transactions, engineVars, newGameTimers>>
              ELSE /\ transactions' = Append(transactions,
                          [user_id |-> card.user_id, type |-> "refund", amount |-> BetAmount,
                           game_id |-> g, card_number |-> card.card_number])
                   /\ IF rest = <<>>
                      THEN /\ CancelRelease(g)
                           /\ starter' = [starter EXCEPT ![g] = [pc |-> AfterCancelGame, refunds |-> <<>>]]
                      ELSE /\ starter' = [starter EXCEPT ![g].refunds = rest]
                           /\ UNCHANGED <<engineVars, newGameTimers>>
    /\ UNCHANGED <<probe, start_time, dbGame, dbCard, events, creating, caller, tick, purchase>>

\* ------------------------------------------- callNumbers: the interval
SetTick(g, s, rec) == [tick EXCEPT ![g][s] = rec]
Step(g, s, pc) == [tick EXCEPT ![g][s].pc = pc]

\* game.pot * (1 - game.settings.house_fee)
Winnings(pot) == (pot * (100 - HouseFeePct)) \div 100

\* a caller that takes allNumbers[numberIndex] without advancing numberIndex
NextIndexStuck(n) == n

\* numberIndex++
NextIndex(n) == n + 1

\* the interval callback starts (setInterval does not wait for the previous
\* callback to finish).  Round no longer active: clearInterval.  Duration
\* elapsed or draws exhausted: clearInterval, endGame reads activeGames and
\* awaits Game.update({status: 'completed'}).  Otherwise the next draw is
\* pushed on game.called_numbers and Game.update({called_numbers}) awaited.
\* D[s] bounds the draws the callbacks in slot s make.
TickFire(g, s, elapsed, D) ==
    /\ caller[g].running
    /\ tick[g][s].pc = "idle"
    /\ \A r \in Slots : r < s => tick[g][r].pc # "idle"
    /\ LET all == CallOrders[caller[g].order]
           n == caller[g].numberIndex
       IN  IF g \notin activeGames
           THEN /\ ~elapsed
                /\ caller' = [caller EXCEPT ![g].running = FALSE]
                /\ UNCHANGED <<tick, game>>
           ELSE IF elapsed \/ n >= Len(all)
           THEN /\ caller' = [caller EXCEPT ![g].running = FALSE]
                /\ tick' = Step(g, s, "endUpdate")
                /\ UNCHANGED game
           ELSE /\ n < D[s]
                /\ caller' = [caller EXCEPT ![g].numberIndex = NextIndex(n)]
                /\ game' = [game EXCEPT ![g].called_numbers = Append(@, all[n + 1])]
                /\ tick' = SetTick(g, s, [IdleTick EXCEPT !.pc = "dbUpdate",
                               !.calledLen = Len(game[g].called_numbers) + 1])
    /\ UNCHANGED <<probe, start_time, waitingGames, activeGames, gameTimers, storeVars, events, deltas,
                   creating, starter, purchase, newGameTimers>>

\* Game.update({called_numbers, current_calls}) resolved; await RedisClient.set
TickDbUpdate(g, s) ==
    /\ tick[g][s].pc = "dbUpdate"
    /\ dbGame' = [dbGame EXCEPT ![g].called_numbers =
                     SubSeq(game[g].called_numbers, 1, tick[g][s].calledLen)]
    /\ tick' = Step(g, s, "snapshot")
    /\ UNCHANGED <<probe, start_time, engineVars, dbCard, user, transactions, events, deltas, creating,
                   starter, caller, purchase, newGameTimers>>

\* RedisClient.set and markNumberOnCards resolved (markNumberOnCards catches
\* its own errors and writes nothing the engine reads); emit numberCalled;
\* checkForWinners reads activeGames and awaits Card.findAll
TickSnapshot(g, s) ==
    /\ tick[g][s].pc = "snapshot"
    /\ events' = Emit(g, "numberCalled")
    /\ tick' = IF g \in activeGames THEN Step(g, s, "find") ELSE SetTick(g, s, IdleTick)
    /\ UNCHANGED <<probe, start_time, engineVars, storeVars, deltas, creating, starter, caller, purchase,
                   newGameTimers>>

\* generateGameCards: the numbers column of the Card rows of round g
StoredNumbers == [g \in Games |-> [c \in CardNumbers |-> generateCardNumbers(c, g)]]

\* the first card, in the order of the rows, that checkCardForBingo accepts
FirstBingo(g, cards) ==
    LET hits == {k \in DOMAIN cards :
                    checkCardForBingo(StoredNumbers[g][cards[k]], game[g].called_numbers)}
    IN  IF hits = {} THEN 0
        ELSE cards[CHOOSE k \in hits : \A j \in hits : k <= j]

\* Card.findAll resolved (rows in any order: the query has no order).  The
\* first card with a bingo goes to declareWinner, which returns when the round
\* is not active or game.winner_id is set and otherwise awaits
\* Game.update({status: 'completed', winner_id, winning_card})
TickFind(g, s) ==
    /\ tick[g][s].pc = "find"
    /\ \E cards \in SetToSeqs(PurchasedCards(g)) :
          LET c == FirstBingo(g, cards)
          IN  tick' = IF c = 0 \/ g \notin activeGames \/ game[g].winner_id # NoUser
                      THEN SetTick(g, s, IdleTick)
                      ELSE SetTick(g, s, [IdleTick EXCEPT !.pc = "dwUpdate",
                               !.userId = dbCard[g][c].user_id, !.cardNumber = c,
                               !.winnings = Winnings(game[g].pot)])
    /\ UNCHANGED <<probe, start_time, engineVars, storeVars, events, deltas, creating, starter, caller,
                   purchase, newGameTimers>>

\* declareWinner: Game.update resolved; await User.increment('balance')
DeclareUpdate(g, s) ==
    /\ tick[g][s].pc = "dwUpdate"
    /\ dbGame' = [dbGame EXCEPT ![g].status = "completed",
                                ![g].winner_id = tick[g][s].userId,
                                ![g].winning_card = tick[g][s].cardNumber]
    /\ tick' = Step(g, s, "dwBalance")
    /\ UNCHANGED <<probe, start_time, engineVars, dbCard, user, transactions, events, deltas, creating,
                   starter, caller, purchase, newGameTimers>>

\* User.increment('balance', {by: winnings}) resolved; await the increments of
\* total_won and games_won
DeclareBalance(g, s) ==
    /\ tick[g][s].pc = "dwBalance"
    /\ user' = [user EXCEPT ![tick[g][s].userId].balance = @ + tick[g][s].winnings]
    /\ deltas' = [deltas EXCEPT ![g]["win"] = @ + 1]
    /\ tick' = Step(g, s, "dwStats")
    /\ UNCHANGED <<probe, start_time, engineVars, dbGame, dbCard, transactions, events, creating, starter,
                   caller, purchase, newGameTimers>>

\* User.increment('total_won') and User.increment('games_won') resolved;
\* await Card.update({is_winner: true})
DeclareStats(g, s) ==
    /\ tick[g][s].pc = "dwStats"
    /\ user' = [user EXCEPT ![tick[g][s].userId].total_won = @ + tick[g][s].winnings,
                            ![tick[g][s].userId].games_won = @ + 1]
    /\ tick' = Step(g, s, "dwMark")
    /\ UNCHANGED <<probe, start_time, engineVars, dbGame, dbCard, transactions, events, deltas, creating,
                   starter, caller, purchase, newGameTimers>>

\* Card.update resolved; await User.findByPk(userId)
DeclareMark(g, s) ==
    /\ tick[g][s].pc = "dwMark"
    /\ dbCard' = [dbCard EXCEPT ![g][tick[g][s].cardNumber].is_winner = TRUE]
    /\ tick' = Step(g, s, "dwRecord")
    /\ UNCHANGED <<probe, start_time, engineVars, dbGame, user, transactions, events, deltas, creating,
                   starter, caller, purchase, newGameTimers>>

\* User.findByPk resolved; Transaction.create; the game object gets status
\* 'completed' and the winner fields; activeGames.delete; emit
\* winnerDeclared; setTimeout(createNewGame).  Transaction undefined: the
\* ReferenceError goes to the catch block, which logs it, and none of that runs.
DeclareRecord(g, s) ==
    /\ tick[g][s].pc = "dwRecord"
    /\ tick' = SetTick(g, s, IdleTick)
    /\ IF TransactionDefined
       THEN /\ transactions' = Append(transactions,
                   [user_id |-> tick[g][s].userId, type |-> "win",
                    amount |-> tick[g][s].winnings, game_id |-> g,
                    card_number |-> tick[g][s].cardNumber])
            /\ game' = [game EXCEPT ![g].status = "completed",
                                    ![g].winner_id = tick[g][s].userId,
                                    ![g].winning_card = tick[g][s].cardNumber]
            /\ activeGames' = activeGames \ {g}
            /\ events' = Emit(g, "winnerDeclared")
            /\ newGameTimers' = newGameTimers + 1
       ELSE UNCHANGED <<transactions, game, activeGames, events, newGameTimers>>
    /\ UNCHANGED <<probe, start_time, waitingGames, gameTimers, dbGame, dbCard, user, deltas, creating,
                   starter, caller, purchase>>

\* an endGame that leaves the round in the active partition
EndGameKeepsActive(g) == activeGames

\* endGame: this.activeGames.delete(gameId)
EndGameRemoves(g) == activeGames \ {g}

\* endGame: Game.update({status: 'completed'}) resolved; activeGames.delete;
\* emit gameEnded (reason 'timeout'); setTimeout(createNewGame)
EndUpdate(g, s) ==
    /\ tick[g][s].pc = "endUpdate"
    /\ dbGame' = [dbGame EXCEPT ![g].status = "completed"]
    /\ activeGames' = EndGameRemoves(g)
    /\ events' = Emit(g, "gameEnded")
    /\ newGameTimers' = newGameTimers + 1
    /\ tick' = SetTick(g, s, IdleTick)
    /\ UNCHANGED <<probe, start_time, waitingGames, game, gameTimers, dbCard, user, transactions, deltas,
                   creating, starter, caller, purchase>>

\* ----------------------------------------------------------- specification
\* every step of the engine, for purchaseCard calls P and interval callbacks
\* running in the slots S, which draw while numberIndex < D[slot]; the calls ask
\* for the cards K
Steps(P, S, D, K) ==
    \/ \E g \in Games : CreateNewGame(g)
    \/ \E g \in Games : NewGameCreated(g)
    \/ \E g \in Games : NewGameCards(g)
    \/ \E g \in Games : NewGameSnapshot(g)
    \/ \E p \in P, g \in Games, u \in Users, c \in K : PurchaseCall(p, g, u, c)
    \/ \E p \in P : PurchaseFindCard(p)
    \/ \E p \in P : PurchaseFindUser(p)
    \/ \E p \in P : PurchaseDecrement(p)
    \/ \E p \in P : PurchaseSave(p)
    \/ \E p \in P : PurchaseRecord(p)
    \/ \E g \in Games : CountdownFire(g)
    \/ \E g \in Games : StartCount(g)
    \/ \E g \in Games : StartUpdate(g)
    \/ \E g \in Games : StartSnapshot(g)
    \/ \E g \in Games : CancelUpdate(g)
    \/ \E g \in Games : CancelFind(g)
    \/ \E g \in Games : CancelRefund(g)
    \/ \E g \in Games, s \in S, elapsed \in BOOLEAN : TickFire(g, s, elapsed, D)
    \/ \E g \in Games, s \in S : TickDbUpdate(g, s)
    \/ \E g \in Games, s \in S : TickSnapshot(g, s)
    \/ \E g \in Games, s \in S : TickFind(g, s)
    \/ \E g \in Games, s \in S : DeclareUpdate(g, s)
    \/ \E g \in Games, s \in S : DeclareBalance(g, s)
    \/ \E g \in Games, s \in S : DeclareStats(g, s)
    \/ \E g \in Games, s \in S : DeclareMark(g, s)
    \/ \E g \in Games, s \in S : DeclareRecord(g, s)
    \/ \E g \in Games, s \in S : EndUpdate(g, s)

\* concurrent purchaseCard calls; every interval callback finishes within the
\* interval's period, so that callbacks of one round do not overlap; the run
\* is observed for the first MaxDraws draws
Next == Steps(Calls, {1}, [s \in Slots |-> MaxDraws], 1..AskedCards)

Spec == Init /\ [][Next]_vars

\* one purchaseCard call; interval callbacks of one round overlap (a callback
\* awaiting storage for longer than the period) during the first MaxDraws
\* draws, and the first slot goes on until the 75 draws are exhausted
NextOverlap == Steps({1}, Slots, [s \in Slots |-> IF s = 1 THEN Len(AllNumbers) ELSE MaxDraws],
                     1..AskedCards)

SpecOverlap == Init /\ [][NextOverlap]_vars

\* ------------------------------------------------ storage calls that fail
\* the places where startGame and the cancelGame it calls await storage:
\* Card.count, Game.update({status: 'active'}), RedisClient.set,
\* Game.update({status: 'cancelled'})
StartAwaits == {"count", "startUpdate", "startSnapshot", "cancelUpdate"}

\* the places where the interval callback awaits storage: Game.update of the
\* called numbers, Card.findAll of checkForWinners, Game.update of
\* declareWinner, Game.update of endGame
TickAwaits == {"dbUpdate", "find", "dwUpdate", "endUpdate"}

\* the catch block of startGame (and of cancelGame, after which startGame
\* returns): console.error, nothing else
CatchStartGame == "done"

\* the storage call startGame or cancelGame awaits rejects: the statements
\* after the await do not run, the catch block logs the error
StartStorageFails(g, at) ==
    /\ starter[g].pc = at
    /\ starter' = [starter EXCEPT ![g].pc = CatchStartGame]
    /\ UNCHANGED <<probe, start_time, engineVars, storeVars, events, deltas, creating, caller, tick,
                   purchase, newGameTimers>>

\* the storage call an interval callback awaits rejects: in the callback
\* itself nothing catches it and the callback ends there; in checkForWinners,
\* declareWinner and endGame the catch block logs it.  What the callback did
\* before the await stays: the draw pushed on game.called_numbers, the
\* interval cleared before endGame
TickStorageFails(g, s, at) ==
    /\ tick[g][s].pc = at
    /\ tick' = SetTick(g, s, IdleTick)
    /\ UNCHANGED <<probe, start_time, engineVars, storeVars, events, deltas, creating, starter, caller,
                   purchase, newGameTimers>>

\* the engine with one purchaseCard call, callbacks that do not overlap, and
\* storage calls that may fail
NextFail ==
    \/ Steps({1}, {1}, [s \in Slots |-> MaxDraws], {1})
    \/ \E g \in Games, at \in StartAwaits : StartStorageFails(g, at)
    \/ \E g \in Games, s \in {1}, at \in TickAwaits : TickStorageFails(g, s, at)

\* timers fire and awaited calls settle: the engine does not stop while a
\* step is possible
SpecFail == Init /\ [][NextFail]_vars /\ WF_vars(NextFail)

\* ------------------------------------------------- restart of the process
\* this.resumeGame is called by loadActiveGames and defined nowhere
ResumeGameDefined == FALSE

\* the rows of Game.findAll({where: {status: ['waiting', 'active']}})
PersistedOpen == {g \in Games : dbGame[g].status \in {"waiting", "active"}}

\* the position in rows of the first row with status 'active', where the
\* call of the undefined this.resumeGame throws and the catch block ends the
\* loop; Len(rows) + 1 when there is none
FirstActive(rows) ==
    LET act == {k \in DOMAIN rows : dbGame[rows[k]].status = "active"}
    IN  IF act = {} \/ ResumeGameDefined THEN Len(rows) + 1
        ELSE CHOOSE k \in act : \A j \in act : k <= j

\* the rounds the loop of loadActiveGames reaches
Reached(rows) == {rows[k] : k \in {j \in DOMAIN rows : j <= FirstActive(rows)}}

\* the process is started again while no createNewGame or purchaseCard call
\* is in flight: the maps, timers, intervals and callbacks of the old process
\* are gone; initialize calls loadActiveGames; Game.findAll resolved with
\* rows.  In the order of the rows: a waiting row is put in waitingGames and
\* startCountdown sets its timer, or calls startGame at once when
\* start_time has passed (expired[g]); an active row is put in activeGames
\* and this.resumeGame(id) throws a TypeError, which the catch block logs.
LoadActiveGames(rows, expired) ==
    /\ \A g \in Games : creating[g] \in {"none", "done"}
    /\ \A p \in Calls : purchase[p].pc \in {"idle", "done"}
    /\ \A g \in Games : events[g]["gameCountdown"] <= MaxRestarts
    /\ LET reached == Reached(rows)
           waiting == {g \in reached : dbGame[g].status = "waiting"}
           active == {g \in reached : dbGame[g].status = "active"}
       IN  /\ waitingGames' = waiting
           /\ activeGames' = active
           /\ game' = [g \in Games |-> IF g \in reached THEN dbGame[g] ELSE NoGame]
           /\ gameTimers' = {g \in waiting : ~expired[g]}
           /\ starter' = [g \in Games |->
                  [pc |-> IF g \notin waiting THEN "none"
                          ELSE IF expired[g] THEN "count" ELSE "timer",
                   refunds |-> <<>>]]
           /\ events' = [g \in Games |->
                  IF g \in waiting /\ ~expired[g]
                  THEN [events[g] EXCEPT !["gameCountdown"] = @ + 1]
                  ELSE events[g]]
    /\ caller' = [g \in Games |-> [running |-> FALSE, order |-> 0, numberIndex |-> 0]]
    /\ tick' = [g \in Games |-> [s \in Slots |-> IdleTick]]
    /\ newGameTimers' = 0
    /\ UNCHANGED <<probe, start_time, storeVars, deltas, creating, purchase>>

\* the engine with one purchaseCard call, callbacks that do not overlap, and
\* restarts of the process
NextRestart ==
    \/ Steps({1}, {1}, [s \in Slots |-> MaxDraws], {1})
    \/ \E rows \in SetToSeqs(PersistedOpen), expired \in [Games -> BOOLEAN] :
          LoadActiveGames(rows, expired)

SpecRestart == Init /\ [][NextRestart]_vars

\* ------------------------------------------- the scheduler, with its clock
\* no createNewGame, startGame, cancelGame or purchaseCard call is waiting
\* for storage
Settled ==
    /\ \A g \in Rounds : creating[g] \in {"none", "done"}
    /\ \A g \in Rounds : starter[g].pc \in {"none", "timer", "done"}
    /\ \A p \in Calls : purchase[p].pc \in {"idle", "done"}
    /\ newGameTimers = 0

\* one period later for every start_time
PeriodLater == [g \in Rounds |-> IF start_time[g] > 0 THEN start_time[g] - 1 ELSE 0]

\* startScheduler's interval fires, 5 s after it fired last: the storage calls
\* of the period before have settled and the countdown timers that were due
\* have fired.  waitingGames.size < 5: createNewGame runs up to await
\* Game.create, for the next unused id g.
SchedulerTick(g) ==
    /\ Settled
    /\ \A h \in Rounds : starter[h].pc = "timer" => start_time[h] > 0
    /\ creating[g] = "none"
    /\ \A h \in Rounds : h < g => creating[h] # "none"
    /\ start_time' = PeriodLater
    /\ creating' = IF Cardinality(waitingGames) < WaitingFloor
                   THEN [creating EXCEPT ![g] = "create"]
                   ELSE creating
    /\ UNCHANGED <<probe, engineVars, storeVars, events, deltas, starter, caller, tick,
                   purchase, newGameTimers>>

\* the countdown timer of round g fires when its start_time has come
CountdownExpires(g) ==
    /\ start_time[g] = 0
    /\ CountdownFire(g)

\* the createNewGame call at the end of cancelGame
ReplacementCall(g) ==
    /\ newGameTimers > 0
    /\ CreateNewGame(g)

\* the scheduler followed in time, with one purchaseCard call for the first
\* card of a round.  The Number Caller of an activated round is not followed:
\* it does not touch the pending partition.
NextSupply ==
    \/ \E g \in Rounds : SchedulerTick(g)
    \/ \E g \in Rounds : ReplacementCall(g)
    \/ \E g \in Rounds : NewGameCreated(g)
    \/ \E g \in Rounds : NewGameCards(g)
    \/ \E g \in Rounds : NewGameSnapshot(g)
    \/ \E g \in Rounds, u \in Users : PurchaseCall(1, g, u, 1)
    \/ PurchaseFindCard(1)
    \/ PurchaseFindUser(1)
    \/ PurchaseDecrement(1)
    \/ PurchaseSave(1)
    \/ PurchaseRecord(1)
    \/ \E g \in Rounds : CountdownExpires(g)
    \/ \E g \in Rounds : StartCount(g)
    \/ \E g \in Rounds : StartUpdate(g)
    \/ \E g \in Rounds : StartSnapshot(g)
    \/ \E g \in Rounds : CancelUpdate(g)
    \/ \E g \in Rounds : CancelFind(g)
    \/ \E g \in Rounds : CancelRefund(g)

\* the engine after construction, with room for the rounds of the scheduler
InitSupply == InitOver(Rounds, [u \in Users |-> InitialBalance(u)]) /\ probe = NoProbe

\* intervals and timers fire, and awaited calls settle
SpecSupply == InitSupply /\ [][NextSupply]_vars /\ WF_vars(NextSupply)

\* ------------------------------------------ direct calls of the Win Detector
\* a card as a working generator would build it: column c holds the first five
\* numbers of its letter's range, the centre is free
ProperGrid ==
    [row \in 1..GridSize |->
        [col \in 1..GridSize |->
            [letter |-> Letters[col],
             number |-> ColumnMin(col) + row - 1,
             free   |-> (row = 3 /\ col = 3)]]]

\* the grids the Win Detector is called with: a proper card, and a card as
\* generateGameCards stores it
BingoGrids == <<ProperGrid, generateCardNumbers(1, 1)>>

\* the 5 rows, 5 columns and 2 diagonals, as sets of <<row, col>>
Lines ==
    {{<<r, c>> : c \in 1..GridSize} : r \in 1..GridSize}
    \cup {{<<r, c>> : r \in 1..GridSize} : c \in 1..GridSize}
    \cup {{<<i, i>> : i \in 1..GridSize}, {<<i, GridSize + 1 - i>> : i \in 1..GridSize}}

\* the numbers ProperGrid has on the cells L
NumbersOn(L) == {ProperGrid[rc[1]][rc[2]].number : rc \in L}

\* the sets of called numbers tried: the numbers on at most two lines of
\* ProperGrid, all of them or all but one
CalledSets ==
    LET whole == {NumbersOn(L1) \cup NumbersOn(L2) : L1, L2 \in Lines \cup {{}}}
    IN  whole \cup UNION {{S \ {n} : n \in S} : S \in whole}

RECURSIVE Ascending(_)
\* the draws of the numbers S, lowest first
Ascending(S) ==
    IF S = {} THEN <<>>
    ELSE LET n == CHOOSE x \in S : \A y \in S : x <= y
         IN  <<Draw(n)>> \o Ascending(S \ {n})

Reverse(seq) == [k \in 1..Len(seq) |-> seq[Len(seq) + 1 - k]]

InitBingo ==
    /\ InitWith([u \in Users |-> InitialBalance(u)])
    /\ probe \in {[pc |-> "bingoArgs", grid |-> i, called |-> S, result |-> FALSE, again |-> FALSE] :
                     i \in DOMAIN BingoGrids, S \in CalledSets}

\* checkCardForBingo(grid, called) with the draws in ascending order
CheckBingo ==
    /\ probe.pc = "bingoArgs"
    /\ probe' = [probe EXCEPT !.pc = "bingoOnce",
                   !.result = checkCardForBingo(BingoGrids[probe.grid], Ascending(probe.called))]
    /\ UNCHANGED <<start_time, engineVars, storeVars, events, deltas, creating, starter, caller,
                   tick, purchase, newGameTimers>>

\* the same call with the same draws in descending order
CheckBingoAgain ==
    /\ probe.pc = "bingoOnce"
    /\ probe' = [probe EXCEPT !.pc = "bingoDone",
                   !.again = checkCardForBingo(BingoGrids[probe.grid],
                                               Reverse(Ascending(probe.called)))]
    /\ UNCHANGED <<start_time, engineVars, storeVars, events, deltas, creating, starter, caller,
                   tick, purchase, newGameTimers>>

NextBingo == CheckBingo \/ CheckBingoAgain

SpecBingo == InitBingo /\ [][NextBingo]_vars

\* --------------------------------------- direct calls of the Card Generator
\* a generator whose output depends on how many cards were generated before
GenerateCounting(cardNumber, gameId) ==
    IF probe.calls = 0 THEN generateCardNumbers(cardNumber, gameId) ELSE ProperGrid

\* generateGameCards: this.generateCardNumbers(cardNum, gameId)
Generate(cardNumber, gameId) == generateCardNumbers(cardNumber, gameId)

InitCards ==
    /\ InitWith([u \in Users |-> InitialBalance(u)])
    /\ probe \in {[pc |-> "cardArgs", cardNumber |-> c, gameId |-> g, calls |-> 0,
                     grid |-> <<>>, again |-> <<>>] : c \in 1..CardsPerGame, g \in 1..MaxSeeds}

\* generateCardNumbers(cardNumber, gameId)
GenerateCard ==
    /\ probe.pc = "cardArgs"
    /\ probe' = [probe EXCEPT !.pc = "generated", !.calls = 1,
                   !.grid = Generate(probe.cardNumber, probe.gameId)]
    /\ UNCHANGED <<start_time, engineVars, storeVars, events, deltas, creating, starter, caller,
                   tick, purchase, newGameTimers>>

\* a card of another round is generated in between
GenerateOther ==
    /\ probe.pc = "generated" /\ probe.calls = 1
    /\ probe' = [probe EXCEPT !.calls = 2]
    /\ UNCHANGED <<start_time, engineVars, storeVars, events, deltas, creating, starter, caller,
                   tick, purchase, newGameTimers>>

\* generateCardNumbers called again with the same arguments
GenerateAgain ==
    /\ probe.pc = "generated"
    /\ probe' = [probe EXCEPT !.pc = "generatedTwice", !.calls = @ + 1,
                   !.again = Generate(probe.cardNumber, probe.gameId)]
    /\ UNCHANGED <<start_time, engineVars, storeVars, events, deltas, creating, starter, caller,
                   tick, purchase, newGameTimers>>

NextCards == GenerateCard \/ GenerateOther \/ GenerateAgain

SpecCards == InitCards /\ [][NextCards]_vars

\* a round during its countdown: purchaseCard calls made one after the other,
\* for any card of the round, by participants who can pay for them
NextCap ==
    \/ \E g \in Games : CreateNewGame(g)
    \/ \E g \in Games : NewGameCreated(g)
    \/ \E g \in Games : NewGameCards(g)
    \/ \E g \in Games : NewGameSnapshot(g)
    \/ \E g \in Games, u \in Users, c \in CardNumbers : PurchaseCall(1, g, u, c)
    \/ PurchaseFindCard(1)
    \/ PurchaseFindUser(1)
    \/ PurchaseDecrement(1)
    \/ PurchaseSave(1)
    \/ PurchaseRecord(1)
    \/ PurchaseReturn(1)

SpecCap == InitCap /\ [][NextCap]_vars

\* ------------------------------------------------------------ properties
InFlight(p) == purchase[p].pc \notin {"idle", "done"}

\* the call p has passed the status check of purchaseCard for round g
Admitted(p, g) == purchase[p].gameId = g

\* the call p has debited its participant
Debited(p) ==
    \/ purchase[p].pc \in {"save", "potUpdate"}
    \/ purchase[p].pc = "done" /\ purchase[p].result \in {"ok", "ReferenceError"}

AllowedStatusChange(a, b) ==
    \/ a = b
    \/ <<a, b>> \in {<<"none", "waiting">>, <<"waiting", "active">>,
                     <<"waiting", "cancelled">>, <<"active", "completed">>}

\* C1: a round's status, in the in-memory object and in the persisted row,
\* changes only along Scheduled -> Active, Scheduled -> Cancelled and
\* Active -> Completed; Completed and Cancelled are terminal.
C1_StatusTransitions ==
    [][\A g \in Games :
          /\ AllowedStatusChange(game[g].status, game'[g].status)
          /\ AllowedStatusChange(dbGame[g].status, dbGame'[g].status)]_vars

\* a round has gone Scheduled -> Active -> Completed, and a later write of
\* its status (endGame after declareWinner) has found it Completed
C1_Witness ==
    \E g \in Games :
        /\ dbGame[g].status = "completed"
        /\ dbGame[g].winner_id # NoUser
        /\ game[g].status = "active"
        /\ events[g]["gameEnded"] = 1

\* C2: of two purchaseCard calls by two participants for the same round and
\* card, exactly one is rejected with 'Card not available', and exactly one
\* balance is decreased, by bet_amount.
C2_OneOfTwoPurchasesLands ==
    \A p, q \in Calls :
        (/\ p < q
         /\ purchase[p].userId # purchase[q].userId
         /\ purchase[p].pc = "done" /\ purchase[q].pc = "done"
         /\ purchase[p].gameId # 0
         /\ purchase[p].gameId = purchase[q].gameId
         /\ purchase[p].cardNumber = purchase[q].cardNumber)
        => /\ (purchase[p].result = "CardNotAvailable") # (purchase[q].result = "CardNotAvailable")
           /\ deltas[purchase[p].gameId]["bet"] = 1

\* every bet debited for round g is matched by a refund
Refunded(g) == deltas[g]["refund"] = deltas[g]["bet"]

\* nothing is running for round g any more
Quiet(g) ==
    /\ starter[g].pc = "done"
    /\ \A p \in Calls : Admitted(p, g) => purchase[p].pc = "done"

\* C3: a purchase racing the countdown decision never assigns a card once the
\* round has left Scheduled, and when a round has been cancelled and all calls
\* have returned, every debit made for it has been refunded.
C3_PurchaseVersusCountdown ==
    [][/\ \A p \in Calls :
             (purchase[p].pc = "save" /\ purchase'[p].pc = "potUpdate")
             => dbGame[purchase[p].gameId].status = "waiting"
       /\ \A g \in Games :
             (dbGame'[g].status = "cancelled" /\ Quiet(g)') => Refunded(g)']_vars

\* C4: the winnings of a round are credited at most once.
C4_WinningsCreditedOnce ==
    \A g \in Games : deltas[g]["win"] <= 1

DeclareWrites(g) ==
    \E s \in Slots : tick[g][s].pc = "dwUpdate" /\ tick'[g][s].pc = "dwBalance"

\* C5: once a round's winner fields are set they never change, no further
\* declaration is written for the round, and at most one winnerDeclared event is
\* emitted for it.
C5_OneWinner ==
    [][\A g \in Games :
          /\ dbGame[g].winner_id # NoUser
             => /\ dbGame'[g].winner_id = dbGame[g].winner_id
                /\ dbGame'[g].winning_card = dbGame[g].winning_card
                /\ ~DeclareWrites(g)
          /\ game[g].winner_id # NoUser
             => /\ game'[g].winner_id = game[g].winner_id
                /\ game'[g].winning_card = game[g].winning_card
          /\ events'[g]["winnerDeclared"] <= 1]_vars

\* C6: before settlement, pot = bet_amount * number of owned cards of the round.
C6_PotMatchesCards ==
    \A g \in Games :
        dbGame[g].status \in {"waiting", "active"}
        => game[g].pot = BetAmount * Cardinality(PurchasedCards(g))

\* the purchased cards of g that satisfy the win predicate now
Qualifying(g) ==
    {c \in PurchasedCards(g) : checkCardForBingo(StoredNumbers[g][c], game[g].called_numbers)}

\* C7: the card handed to declareWinner is the lowest-numbered purchased card
\* that satisfies the win predicate.
C7_LowestCardWins ==
    \A g \in Games, s \in Slots :
        tick[g][s].pc = "dwUpdate"
        => \A c \in Qualifying(g) : tick[g][s].cardNumber <= c

\* round g has been active and is no longer in the active partition
LeftActive(g) == game[g].status # "waiting" /\ game[g].status # "none" /\ g \notin activeGames

\* C8: once a round has left the active partition, nothing more is drawn,
\* persisted to called_numbers or emitted as numberCalled for it.
C8_CallerStopsWithRound ==
    [][\A g \in Games :
          LeftActive(g)
          => /\ game'[g].called_numbers = game[g].called_numbers
             /\ dbGame'[g].called_numbers = dbGame[g].called_numbers
             /\ events'[g]["numberCalled"] = events[g]["numberCalled"]]_vars

NoDuplicates(seq) == Cardinality(Range(seq)) = Len(seq)

IsPrefix(a, b) == Len(a) <= Len(b) /\ a = SubSeq(b, 1, Len(a))

WellFormedCalls(seq) ==
    /\ NoDuplicates(seq)
    /\ \A i \in DOMAIN seq :
          seq[i].number \in 1..(GridSize * ColumnWidth) /\ seq[i] = Draw(seq[i].number)
    /\ Len(seq) <= GridSize * ColumnWidth

\* C9: called_numbers is a duplicate-free sequence of draws of the 75-value
\* universe, of length at most 75, and it only grows by appending; the
\* persisted copy is always a prefix of it.
C9_CalledNumbers ==
    /\ [](\A g \in Games :
             /\ WellFormedCalls(game[g].called_numbers)
             /\ IsPrefix(dbGame[g].called_numbers, game[g].called_numbers))
    /\ [][\A g \in Games :
             \/ game'[g].called_numbers = game[g].called_numbers
             \/ /\ Len(game'[g].called_numbers) = Len(game[g].called_numbers) + 1
                /\ IsPrefix(game[g].called_numbers, game'[g].called_numbers)]_vars

\* all 75 draws have been made and persisted, the last of them by a callback
\* that started while another one was still awaiting storage, and the round
\* has ended on the exhausted caller
C9_Witness ==
    \E g \in Games :
        /\ Len(game[g].called_numbers) = Len(AllNumbers)
        /\ dbGame[g].called_numbers = game[g].called_numbers
        /\ tick[g][2].pc \in {"dbUpdate", "snapshot", "find"}
        /\ ~caller[g].running
        /\ events[g]["gameEnded"] = 1

\* the bets debited from participant u by the calls made
BetsOf(u) == Cardinality({p \in Calls : purchase[p].userId = u /\ Debited(p)})

WinRows(g) == {k \in DOMAIN transactions :
                  transactions[k].type = "win" /\ transactions[k].game_id = g}

\* C10: when declareWinner has run for an Active round with pot P, the winner
\* has been credited P * (1 - house_fee) once, one Win transaction of that
\* amount exists, the round is Completed with the winner fields set, in memory
\* and persisted, and it is out of the active partition.
C10_Payout ==
    \A g \in Games :
        (deltas[g]["win"] >= 1 /\ \A s \in Slots : tick[g][s].pc = "idle")
        => LET w == dbGame[g].winner_id
           IN  /\ user[w].balance = InitialBalance(w) - BetAmount * BetsOf(w)
                                    + Winnings(game[g].pot)
               /\ Cardinality(WinRows(g)) = 1
               /\ \A k \in WinRows(g) : transactions[k].amount = Winnings(game[g].pot)
               /\ dbGame[g].status = "completed"
               /\ game[g].status = "completed"
               /\ game[g].winner_id = w
               /\ g \notin activeGames

\* a replacement for round g is on its way: a createNewGame call is pending or
\* a later round exists
ReplacementScheduled(g) ==
    \/ newGameTimers >= 1
    \/ \E h \in Games : h > g /\ creating[h] # "none"

RowsOf(g) == {k \in DOMAIN transactions : transactions[k].game_id = g}

\* C11: when the countdown of a round has been handled and no card of the
\* round was ever paid for, the round is Cancelled and out of both partitions,
\* no transaction exists for it, no balance was changed for it, and a
\* replacement round is scheduled.
C11_CancelledWithoutCards ==
    \A g \in Games :
        (starter[g].pc = "done" /\ deltas[g]["bet"] = 0)
        => /\ dbGame[g].status = "cancelled"
           /\ g \notin waitingGames /\ g \notin activeGames
           /\ g \notin gameTimers
           /\ RowsOf(g) = {}
           /\ deltas[g]["refund"] = 0 /\ deltas[g]["win"] = 0
           /\ ReplacementScheduled(g)

\* a round has been cancelled at the end of its countdown with no card bought
C11_Witness ==
    \E g \in Games :
        /\ starter[g].pc = "done" /\ deltas[g]["bet"] = 0
        /\ dbGame[g].status = "cancelled"
        /\ \A u \in Users : user[u].balance = InitialBalance(u)

\* endGame has run for round g and no purchased card of g has a complete line
EndedWithoutBingo(g) == events[g]["gameEnded"] >= 1 /\ Qualifying(g) = {}

\* C12: a round that endGame has ended (duration elapsed or draws exhausted)
\* with no purchased card satisfying the win predicate is persisted Completed,
\* has no winner and no winnings credited, is out of the active partition, and
\* exactly one gameEnded event was emitted for it.
C12_EndedWithoutWinner ==
    \A g \in Games :
        EndedWithoutBingo(g)
        => /\ dbGame[g].status = "completed"
           /\ dbGame[g].winner_id = NoUser /\ game[g].winner_id = NoUser
           /\ deltas[g]["win"] = 0
           /\ events[g]["gameEnded"] = 1 /\ events[g]["winnerDeclared"] = 0
           /\ g \notin activeGames
           /\ ~caller[g].running

\* an Active round with some draws made has been ended before any card won
C12_Witness ==
    \E g \in Games :
        /\ EndedWithoutBingo(g)
        /\ Len(game[g].called_numbers) >= 2
        /\ PurchasedCards(g) # {}
        /\ \A s \in Slots : tick[g][s].pc = "idle"

\* the cards of round g owned by participant u
CardsOf(g, u) == {c \in CardNumbers : dbCard[g][c].exists /\ dbCard[g][c].user_id = u}

\* C13: no participant owns more than max_cards_per_player cards of one
\* round, and a purchaseCard call by a participant who already owns that many
\* changes nothing.
C13_CardCap ==
    /\ [](\A g \in Games, u \in Users : Cardinality(CardsOf(g, u)) <= MaxCardsPerPlayer)
    /\ [][\A p \in Calls :
             (/\ purchase[p].pc # "idle" /\ purchase[p].gameId # 0
              /\ Cardinality(CardsOf(purchase[p].gameId, purchase[p].userId)) >= MaxCardsPerPlayer)
             => /\ user' = user
                /\ dbCard' = dbCard
                /\ game' = game]_vars

\* the errors purchaseCard throws from its checks
Rejections == {"GameNotAvailable", "CardNotAvailable", "InsufficientBalance"}

\* this step is a step of call p that makes one of the checks of purchaseCard
CheckStep(p) ==
    /\ purchase'[p] # purchase[p]
    /\ \/ purchase'[p].result \in Rejections
       \/ purchase'[p].pc \in {"findCard", "findUser", "decrement"}

\* C14: the steps by which purchaseCard checks the round, the card and the
\* balance, and the step that rejects the call, hand the error to the caller
\* and change no balance, card, pot, counter, transaction, event or partition.
C14_RejectionMutatesNothing ==
    [][\A p \in Calls :
          CheckStep(p)
          => /\ purchase'[p].result \in Rejections => purchase'[p].pc = "done"
             /\ UNCHANGED <<user, dbCard, dbGame, game, transactions, events, deltas,
                            waitingGames, activeGames>>]_vars

\* one call of the run has paid for its card and another call has been
\* rejected, for its balance or for a card that is owned
C14_Witness ==
    \E p, q \in Calls :
        /\ purchase[p].result \in {"InsufficientBalance", "CardNotAvailable"}
        /\ purchase[q].result = "ReferenceError"
        /\ deltas[purchase[q].gameId]["bet"] = 1
        /\ Cardinality(PurchasedCards(purchase[q].gameId)) = 1

\* C15: no round is in both partitions; a round in the pending partition has
\* status 'waiting' and a round in the active partition has status 'active'.
C15_PartitionsDisjoint ==
    \A g \in Games :
        /\ ~(g \in waitingGames /\ g \in activeGames)
        /\ g \in waitingGames => game[g].status = "waiting"
        /\ g \in activeGames => game[g].status = "active"

\* every cell of the line L of grid is free or has its letter and number among
\* the called numbers S
LineMatched(grid, L, S) ==
    \A rc \in L :
        LET cell == grid[rc[1]][rc[2]]
        IN  cell.free \/ (cell.number \in S /\ cell.letter = LetterOf(cell.number))

\* C16: checkCardForBingo returns true exactly when one of the 5 rows, 5
\* columns or 2 diagonals has every cell free or called, and the order of the
\* called draws does not change the result.
C16_BingoIffLine ==
    probe.pc = "bingoDone"
    => /\ probe.result = (\E L \in Lines : LineMatched(BingoGrids[probe.grid], L, probe.called))
       /\ probe.again = probe.result

\* the proper card wins on exactly the four numbers of its main diagonal
C16_Witness ==
    /\ probe.pc = "bingoDone"
    /\ probe.grid = 1
    /\ probe.called = NumbersOn({<<i, i>> : i \in 1..GridSize}) \ {ProperGrid[3][3].number}
    /\ probe.result

\* the numbers on the cells of grid
NumbersOf(grid) == {grid[r][c].number : r \in 1..GridSize, c \in 1..GridSize}

\* C17: a generated grid is a full 5 x 5 grid whose only free cell is the
\* centre, whose columns hold numbers of their letter's range, and in which no
\* number occurs twice.
C17_GridWellFormed ==
    probe.pc \in {"generated", "generatedTwice"}
    => /\ DOMAIN probe.grid = 1..GridSize
       /\ \A r \in 1..GridSize :
             /\ DOMAIN probe.grid[r] = 1..GridSize
             /\ \A c \in 1..GridSize :
                   /\ probe.grid[r][c].free = (r = 3 /\ c = 3)
                   /\ probe.grid[r][c].letter = Letters[c]
                   /\ probe.grid[r][c].number \in ColumnMin(c)..ColumnMax(c)
       /\ Cardinality(NumbersOf(probe.grid)) = GridSize * GridSize

\* the 400th card of a round has been generated: its B column is 1 3 4 5 6
C17_Witness ==
    /\ probe.pc = "generated"
    /\ probe.cardNumber = CardsPerGame
    /\ [r \in 1..GridSize |-> probe.grid[r][1].number] = <<1, 3, 4, 5, 6>>

LeftScheduled(g) ==
    \/ g \notin waitingGames
    \/ dbGame[g].status \in {"active", "cancelled"}
    \/ game[g].status \in {"active", "cancelled"}

\* the round has reached Completed: it is out of the active partition, or its
\* row or object says completed
ReachedCompleted(g) ==
    \/ g \notin activeGames
    \/ dbGame[g].status = "completed"
    \/ game[g].status = "completed"

\* C19: whatever storage calls fail, a pending round whose countdown has
\* expired (startGame is running for it) eventually leaves Scheduled, and a
\* round in the active partition eventually reaches Completed
C19_ProgressDespiteFailures ==
    \A g \in Games :
        /\ (g \in waitingGames /\ starter[g].pc = "count") ~> LeftScheduled(g)
        /\ (g \in activeGames) ~> ReachedCompleted(g)

\* C19: a round whose startGame ended in its catch block: it is still pending,
\* its countdown timer is spent and nothing is running for it
C19_Witness ==
    \E g \in Games :
        /\ g \in waitingGames
        /\ ~LeftScheduled(g)
        /\ starter[g].pc = "done"
        /\ purchase[1].pc = "done"

\* the draws a running caller of round g has still to make
DrawsLeft(g) ==
    LET all == CallOrders[caller[g].order]
    IN  {all[k] : k \in {j \in DOMAIN all : j > caller[g].numberIndex}}

\* round g, persisted as waiting or active, is registered and running again
Resumed(g) ==
    /\ dbGame[g].status = "waiting" =>
          /\ g \in waitingGames
          /\ starter[g].pc \in {"timer", "count"}
    /\ dbGame[g].status = "active" =>
          /\ g \in activeGames
          /\ caller[g].running
          /\ DrawsLeft(g) \cap Range(dbGame[g].called_numbers) = {}

\* C20: a restart puts every round persisted as waiting in the pending
\* partition with its countdown resumed and every round persisted as active
\* in the active partition with a Number Caller that draws none of the
\* persisted called numbers
C20_RestartResumes ==
    [][(\E rows \in SetToSeqs(PersistedOpen), expired \in [Games -> BOOLEAN] :
            LoadActiveGames(rows, expired))
       => \A g \in Games : Resumed(g)']_vars

\* C20: a round persisted as active with draws made, after a restart: it is
\* in the active partition and no startGame or interval callback exists
\* for it
C20_Witness ==
    \E g \in Games :
        /\ dbGame[g].status = "active"
        /\ dbGame[g].called_numbers # <<>>
        /\ g \in activeGames
        /\ starter[g].pc = "none"
        /\ \A s \in Slots : tick[g][s].pc = "idle"

\* the row at which the loop of loadActiveGames threw: the round whose
\* reconstruction failed
FailedRows(rows) ==
    IF FirstActive(rows) <= Len(rows) THEN {rows[FirstActive(rows)]} ELSE {}

\* round g is marked cancelled and registered in neither partition
Quarantined(g) ==
    /\ dbGame[g].status = "cancelled"
    /\ g \notin waitingGames \cup activeGames

\* C21: when the reconstruction of a persisted round fails during a restart,
\* that round is quarantined (marked cancelled, no refund made) and every
\* other persisted waiting or active round is registered and resumed
C21_QuarantineOnly ==
    [][\A rows \in SetToSeqs(PersistedOpen), expired \in [Games -> BOOLEAN] :
          LoadActiveGames(rows, expired) =>
              /\ \A g \in FailedRows(rows) :
                    /\ Quarantined(g)'
                    /\ deltas'[g]["refund"] = deltas[g]["refund"]
              /\ \A g \in PersistedOpen \ FailedRows(rows) : Resumed(g)']_vars

\* the Refund rows written for card c of round g
RefundRows(g, c) ==
    {k \in RowsOf(g) : transactions[k].type = "refund" /\ transactions[k].card_number = c}

\* C22: when cancelGame has returned for a cancelled round and no purchase
\* of the round is in flight, every owned card of the round has exactly one
\* Refund row of bet_amount for its owner, as many balance credits were made
\* as there are owned cards, and the round is out of the pending partition
\* with its countdown timer cleared
C22_CancelRefundsEveryCard ==
    \A g \in Games :
        (dbGame[g].status = "cancelled" /\ Quiet(g))
        => /\ \A c \in PurchasedCards(g) :
                 /\ Cardinality(RefundRows(g, c)) = 1
                 /\ \A k \in RefundRows(g, c) :
                       /\ transactions[k].amount = BetAmount
                       /\ transactions[k].user_id = dbCard[g][c].user_id
           /\ deltas[g]["refund"] = Cardinality(PurchasedCards(g))
           /\ g \notin waitingGames
           /\ g \notin gameTimers

\* round g is Active for the engine, its row, or its Number Caller
EverActive(g) ==
    \/ g \in activeGames
    \/ game[g].status = "active"
    \/ dbGame[g].status = "active"
    \/ caller[g].running

\* C23: when the count of purchased cards arrives at the end of a countdown,
\* the round goes on to activation if the count is at least min_players and to
\* cancellation otherwise; and a round that is active, or whose Number Caller
\* runs, has at least min_players purchased cards
C23_ActivationNeedsCards ==
    /\ [](\A g \in Games : EverActive(g) => Cardinality(PurchasedCards(g)) >= MinCards)
    /\ [][\A g \in Games :
             (starter[g].pc = "count" /\ starter'[g].pc # "count")
             => IF Cardinality(PurchasedCards(g)) >= MinCards
                THEN starter'[g].pc = "startUpdate"
                ELSE starter'[g].pc \in {"cancelUpdate", "done"}]_vars

\* C23: a round was activated with a purchased card and its Number Caller has
\* made a draw
C23_Witness ==
    \E g \in Games :
        /\ g \in activeGames
        /\ starter[g].pc = "done"
        /\ caller[g].running /\ caller[g].numberIndex >= 1
        /\ Cardinality(PurchasedCards(g)) >= MinCards

\* the Bet rows written for card c of round g bought by u
BetRows(g, u, c) ==
    {k \in RowsOf(g) : /\ transactions[k].type = "bet"
                       /\ transactions[k].user_id = u
                       /\ transactions[k].card_number = c
                       /\ transactions[k].amount = BetAmount}

\* C24: a purchaseCard call that passed the round, card and balance checks
\* and has returned, returned its card: one Bet row of bet_amount exists for
\* it, the participant's games_played was incremented, cardPurchased was
\* emitted, and no error was reported after the debit
C24_PurchaseCompletes ==
    \A p \in Calls :
        (purchase[p].pc = "done" /\ purchase[p].result \notin Rejections)
        => /\ purchase[p].result = "ok"
           /\ Cardinality(BetRows(purchase[p].gameId, purchase[p].userId,
                                  purchase[p].cardNumber)) = 1
           /\ user[purchase[p].userId].games_played >= 1
           /\ events[purchase[p].gameId]["cardPurchased"] >= 1

\* C25: once a card has an owner, no step gives it another owner or none
C25_OwnerImmutable ==
    [][\A g \in Games, c \in CardNumbers :
          dbCard[g][c].user_id # NoUser
          => dbCard'[g][c].user_id = dbCard[g][c].user_id]_vars

\* this step is the return of declareWinner, endGame or cancelGame for round
\* g, after the operation persisted the terminal status
TerminalReturn(g) ==
    \/ \E s \in Slots : /\ tick[g][s].pc \in {"dwRecord", "endUpdate"}
                        /\ tick'[g][s].pc = "idle"
    \/ /\ starter[g].pc \in {"cancelFind", "cancelRefund"}
       /\ starter'[g].pc = "done"

\* C26: the return of declareWinner, endGame or cancelGame for a round
\* schedules one createNewGame, and no round has the replacement scheduled
\* twice (by declareWinner and endGame, or by one of them twice)
C26_OneReplacement ==
    /\ [](\A g \in Games : events[g]["winnerDeclared"] + events[g]["gameEnded"] <= 1)
    /\ [][\A g \in Games : TerminalReturn(g) => newGameTimers' = newGameTimers + 1]_vars

\* the ids Game.create has not given yet
UnusedIds == {g \in Rounds : creating[g] = "none"}

\* the rounds of the pending partition that are Scheduled, for the engine's
\* object or for the row
ScheduledPending ==
    {g \in waitingGames : game[g].status = "waiting" \/ dbGame[g].status = "waiting"}

\* C27: when the scheduler fires with fewer than 5 Scheduled rounds in the
\* pending partition it calls createNewGame; a createNewGame call registers
\* its round in the pending partition as waiting; and a pending partition
\* with fewer Scheduled rounds than the floor is eventually filled up to the
\* floor (while ids are left to fill it)
C27_SupplyMaintained ==
    /\ [][\A g \in Rounds :
             (SchedulerTick(g) /\ Cardinality(ScheduledPending) < WaitingFloor)
             => creating'[g] = "create"]_vars
    /\ \A g \in Rounds :
          (creating[g] = "create") ~> (g \in waitingGames /\ game[g].status = "waiting")
    /\ (Cardinality(ScheduledPending) < WaitingFloor /\ Cardinality(UnusedIds) >= WaitingFloor)
          ~> (Cardinality(ScheduledPending) >= WaitingFloor)

\* the Card rows of round g
CardRows(g) == {c \in CardNumbers : dbCard[g][c].exists}

\* C28: every round in the pending partition has all its cards, numbered
\* 1..cards per round, and once createNewGame has returned its countdown has
\* been set; the step that registers a round registers it as waiting with
\* pot 0, and the step that creates its cards creates them unowned
C28_RegisteredWithCards ==
    /\ [](\A g \in Games :
             g \in waitingGames
             => /\ CardRows(g) = CardNumbers
                /\ creating[g] = "done" => starter[g].pc # "none")
    /\ [][\A g \in Games :
             /\ (g \notin waitingGames /\ g \in waitingGames' /\ creating[g] # "done")
                => /\ game'[g].status = "waiting" /\ game'[g].pot = 0
                   /\ dbGame'[g].status = "waiting" /\ dbGame'[g].pot = 0
             /\ (CardRows(g) = {} /\ CardRows(g)' # {})
                => \A c \in CardNumbers : dbCard'[g][c].user_id = NoUser]_vars

\* C28: a round is registered, its createNewGame call has returned, all its
\* cards are unowned and its countdown timer is set
C28_Witness ==
    \E g \in Games :
        /\ g \in waitingGames
        /\ creating[g] = "done"
        /\ starter[g].pc = "timer" /\ g \in gameTimers
        /\ PurchasedCards(g) = {}
        /\ CardRows(g) = CardNumbers

\* no interval callback of round g is running
SweepsFinished(g) == \A s \in Slots : tick[g][s].pc = "idle"

\* C29: when no interval callback of a round is running (every win sweep
\* started so far has finished), a round that is still Active (registered in
\* the active partition with status active) has no purchased card with a
\* complete line for its called numbers
C29_FirstQualifyingCardEnds ==
    \A g \in Games :
        (/\ SweepsFinished(g)
         /\ g \in activeGames
         /\ game[g].status = "active"
         /\ game[g].called_numbers # <<>>)
        => Qualifying(g) = {}

\* round g has left Scheduled: its row or its object says so
PastScheduled(g) ==
    \/ dbGame[g].status \in {"active", "completed", "cancelled"}
    \/ game[g].status \in {"active", "completed", "cancelled"}

\* C30: once a round has left Scheduled no step changes the pot the engine
\* holds for it or the set of its owned cards
C30_PotFrozenAfterScheduled ==
    [][\A g \in Games :
          PastScheduled(g)
          => /\ game'[g].pot = game[g].pot
             /\ PurchasedCards(g)' = PurchasedCards(g)]_vars

\* C31: no participant's balance is ever negative
C31_BalanceNeverNegative == \A u \in Users : user[u].balance >= 0

RECURSIVE SumOver(_, _)
\* the sum of f[x] over the x of S
SumOver(f, S) ==
    IF S = {} THEN 0
    ELSE LET x == CHOOSE y \in S : TRUE IN f[x] + SumOver(f, S \ {x})

\* what User.decrement took from the participants as bets of round g
DebitedFor(g) == BetAmount * deltas[g]["bet"]

\* what User.increment gave to the participants as refunds of round g
RefundedFor(g) == BetAmount * deltas[g]["refund"]

\* what User.increment gave to the participants as winnings: the balances
\* hold what they held at the start, less the bets, plus refunds and winnings
WinningsCredited ==
    SumOver([u \in Users |-> user[u].balance - InitialBalance(u)], Users)
    + SumOver([g \in Games |-> DebitedFor(g) - RefundedFor(g)], Games)

\* C32: the winnings and refunds credited for the rounds never exceed the
\* bets debited for them, and the winnings credited for a round never exceed
\* its pot
C32_MoneyConserved ==
    /\ WinningsCredited + SumOver([g \in Games |-> RefundedFor(g)], Games)
          <= SumOver([g \in Games |-> DebitedFor(g)], Games)
    /\ WinningsCredited <= SumOver([g \in Games |-> game[g].pot], Games)

\* the cards of round g whose row has is_winner set
FlaggedCards(g) == {c \in CardNumbers : dbCard[g][c].exists /\ dbCard[g][c].is_winner}

\* C33: when a round's row is completed with a winner and no declaration is
\* under way, the recorded winner owns the recorded winning card, that card
\* has a complete line for the round's called numbers, and it is the only card
\* of the round flagged as winner
C33_WinnerOwnsOnlyWinningCard ==
    \A g \in Games :
        (/\ SweepsFinished(g)
         /\ dbGame[g].status = "completed"
         /\ dbGame[g].winner_id # NoUser)
        => /\ dbGame[g].winning_card \in CardNumbers
           /\ dbCard[g][dbGame[g].winning_card].user_id = dbGame[g].winner_id
           /\ dbGame[g].winning_card \in Qualifying(g)
           /\ FlaggedCards(g) = {dbGame[g].winning_card}

====
